---- MODULE Spec2Model ----
(***************************************************************************)
(* Model of src/robust_function.c: two goto-structured functions that run  *)
(* the fallible steps do_a .. do_d in order and unwind the steps already   *)
(* done, in reverse order, when a later step fails.                        *)
(*   robust_function_get_everything_done_but_not_undone  ("factory")       *)
(*   robust_function_get_everything_done_and_undone      ("scoped")        *)
(* One action per statement of each function; pc is the statement about to *)
(* execute.  The callees (var_N_is_valid, do_x, undo_x) are external: what *)
(* they return is chosen nondeterministically where the code calls them.   *)
(***************************************************************************)
EXTENDS Integers, Sequences, FiniteSets

FAILURE == -1
SUCCESS == 0

\* do_a, do_b, do_c, do_d are steps 1..4
NSteps == 4
Steps == 1..NSteps

BUT_NOT_UNDONE == "but_not_undone"
AND_UNDONE == "and_undone"

VARIABLES
    fn,      \* which of the two functions this run executes
    valid,   \* valid[n]: what var_n_is_valid(var_n) returns for the arguments
    pc,      \* statement about to execute
    result,  \* the local variable result
    calls,   \* the calls made so far, in order
    att,     \* att[s]: "none" (do_s not called), "ok" or "fail" (what it returned)
    live,    \* steps whose do_s succeeded and whose undo_s has not been called
    prev     \* <<>>, or <<r>> with r the record of an earlier, completed call made
             \* with the same arguments (used to compare two calls)

vars == <<fn, valid, pc, result, calls, att, live, prev>>

\* The condition of the first if, read as "the arguments are accepted":
\* !(!v1 || !v2 || !v3)
ArgsValid == ~(~valid[1] \/ ~valid[2] \/ ~valid[3])

\* mutant: result starts out as SUCCESS
Init_ResultSuccess ==
    /\ fn \in {BUT_NOT_UNDONE, AND_UNDONE}
    /\ valid \in [1..3 -> BOOLEAN]
    /\ pc = "validate"
    /\ result = SUCCESS
    /\ calls = <<>>
    /\ att = [s \in Steps |-> "none"]
    /\ live = {}
    /\ prev = <<>>

\* int result = FAILURE; is the first statement of both functions
Init ==
    /\ fn \in {BUT_NOT_UNDONE, AND_UNDONE}
    /\ valid \in [1..3 -> BOOLEAN]
    /\ pc = "validate"
    /\ result = FAILURE
    /\ calls = <<>>
    /\ att = [s \in Steps |-> "none"]
    /\ live = {}
    /\ prev = <<>>

\* mutant: the three checks joined by && instead of ||
Validate_AllInvalid(f) ==
    /\ fn = f
    /\ pc = "validate"
    /\ pc' = IF ~valid[1] /\ ~valid[2] /\ ~valid[3] THEN "out" ELSE "do_a"
    /\ UNCHANGED <<prev, fn, valid, result, calls, att, live>>

\* if (!var_1_is_valid(..) || ...) goto out;
Validate(f) ==
    /\ fn = f
    /\ pc = "validate"
    /\ pc' = IF ArgsValid THEN "do_a" ELSE "out"
    /\ UNCHANGED <<prev, fn, valid, result, calls, att, live>>

\* if (!do_s()) goto onFail;   falls through to onOk
Attempt(f, at, s, onOk, onFail) ==
    /\ fn = f
    /\ pc = at
    /\ \E r \in BOOLEAN :
        /\ calls' = Append(calls, [k |-> "do", s |-> s, r |-> r])
        /\ att' = [att EXCEPT ![s] = IF r THEN "ok" ELSE "fail"]
        /\ live' = IF r THEN live \cup {s} ELSE live
        /\ pc' = IF r THEN onOk ELSE onFail
    /\ UNCHANGED <<prev, fn, valid, result>>

\* mutant: a failing undo_s abandons the rest of the unwind
Undo_StopOnFailure(f, at, s, next) ==
    /\ fn = f
    /\ pc = at
    /\ \E r \in BOOLEAN :
        /\ calls' = Append(calls, [k |-> "undo", s |-> s, r |-> r])
        /\ live' = IF r THEN live \ {s} ELSE live
        /\ pc' = IF r THEN next ELSE "out"
    /\ UNCHANGED <<prev, fn, valid, result, att>>

\* undo_s();   an expression statement: whatever undo_s returns is discarded
\* and control falls through to the next label
Undo(f, at, s, next) ==
    /\ fn = f
    /\ pc = at
    /\ \E r \in BOOLEAN :
        calls' = Append(calls, [k |-> "undo", s |-> s, r |-> r])
    /\ live' = live \ {s}
    /\ pc' = next
    /\ UNCHANGED <<prev, fn, valid, result, att>>

\* the core task, between the last step and result = SUCCESS
Core(f) ==
    /\ fn = f
    /\ pc = "core"
    /\ calls' = Append(calls, [k |-> "core", s |-> 0, r |-> TRUE])
    /\ pc' = "set_result"
    /\ UNCHANGED <<prev, fn, valid, result, att, live>>

\* out: return result;
Out(f) ==
    /\ fn = f
    /\ pc = "out"
    /\ pc' = "returned"
    /\ UNCHANGED <<prev, fn, valid, result, calls, att, live>>

----------------------------------------------------------------------------
\* robust_function_get_everything_done_but_not_undone

NotUndone_validate == Validate(BUT_NOT_UNDONE)

\* mutant: a failed do_a jumps to cleanup_a
NotUndone_do_a_CleanupA == Attempt(BUT_NOT_UNDONE, "do_a", 1, "do_b", "cleanup_a")

NotUndone_do_a == Attempt(BUT_NOT_UNDONE, "do_a", 1, "do_b", "out")

\* mutant: a failed do_b jumps straight to out
NotUndone_do_b_NoCleanup == Attempt(BUT_NOT_UNDONE, "do_b", 2, "do_c", "out")

NotUndone_do_b == Attempt(BUT_NOT_UNDONE, "do_b", 2, "do_c", "cleanup_a")

\* mutant: a failed do_c jumps to the cleanup of its own step
NotUndone_do_c_OwnCleanup == Attempt(BUT_NOT_UNDONE, "do_c", 3, "do_d", "cleanup_c")

NotUndone_do_c == Attempt(BUT_NOT_UNDONE, "do_c", 3, "do_d", "cleanup_b")

\* mutant: a failed do_d jumps one label too far
NotUndone_do_d_SkipsC == Attempt(BUT_NOT_UNDONE, "do_d", 4, "core", "cleanup_b")

NotUndone_do_d == Attempt(BUT_NOT_UNDONE, "do_d", 4, "core", "cleanup_c")

NotUndone_core == Core(BUT_NOT_UNDONE)

\* mutant: the goto out is missing, control falls into cleanup_c
NotUndone_success_FallsThrough ==
    /\ fn = BUT_NOT_UNDONE
    /\ pc = "set_result"
    /\ result' = SUCCESS
    /\ pc' = "cleanup_c"
    /\ UNCHANGED <<prev, fn, valid, calls, att, live>>

\* result = SUCCESS; goto out;
NotUndone_success ==
    /\ fn = BUT_NOT_UNDONE
    /\ pc = "set_result"
    /\ result' = SUCCESS
    /\ pc' = "out"
    /\ UNCHANGED <<prev, fn, valid, calls, att, live>>

\* mutant: a failing undo_c abandons the rest of the unwind
NotUndone_cleanup_c_StopOnFailure ==
    Undo_StopOnFailure(BUT_NOT_UNDONE, "cleanup_c", 3, "cleanup_b")

NotUndone_cleanup_c == Undo(BUT_NOT_UNDONE, "cleanup_c", 3, "cleanup_b")

NotUndone_cleanup_b == Undo(BUT_NOT_UNDONE, "cleanup_b", 2, "cleanup_a")

\* mutant: after the last cleanup the function starts over
NotUndone_cleanup_a_Retry == Undo(BUT_NOT_UNDONE, "cleanup_a", 1, "do_a")

NotUndone_cleanup_a == Undo(BUT_NOT_UNDONE, "cleanup_a", 1, "out")

NotUndone_out == Out(BUT_NOT_UNDONE)

----------------------------------------------------------------------------
\* robust_function_get_everything_done_and_undone

AndUndone_validate == Validate(AND_UNDONE)

AndUndone_do_a == Attempt(AND_UNDONE, "do_a", 1, "do_b", "out")

\* mutant: the goto of a failed do_b is missing, control falls into do_c
AndUndone_do_b_NoGoto == Attempt(AND_UNDONE, "do_b", 2, "do_c", "do_c")

AndUndone_do_b == Attempt(AND_UNDONE, "do_b", 2, "do_c", "cleanup_a")

\* mutant: the test of do_c is inverted (if (do_c()) goto cleanup_b)
AndUndone_do_c_Inverted == Attempt(AND_UNDONE, "do_c", 3, "cleanup_b", "do_d")

AndUndone_do_c == Attempt(AND_UNDONE, "do_c", 3, "do_d", "cleanup_b")

\* mutant: a failed do_d falls into the core task
AndUndone_do_d_NoGoto == Attempt(AND_UNDONE, "do_d", 4, "core", "core")

\* mutant: a cleanup_d label exists and a failed do_d jumps to it
AndUndone_do_d_CleanupD == Attempt(AND_UNDONE, "do_d", 4, "core", "undo_d")

AndUndone_do_d == Attempt(AND_UNDONE, "do_d", 4, "core", "cleanup_c")

AndUndone_core == Core(AND_UNDONE)

\* mutant: undo_d() is missing, control falls from result = SUCCESS into cleanup_c
AndUndone_success_SkipsUndoD ==
    /\ fn = AND_UNDONE
    /\ pc = "set_result"
    /\ result' = SUCCESS
    /\ pc' = "cleanup_c"
    /\ UNCHANGED <<prev, fn, valid, calls, att, live>>

\* mutant: goto out after result = SUCCESS, as in the first function
AndUndone_success_GotoOut ==
    /\ fn = AND_UNDONE
    /\ pc = "set_result"
    /\ result' = SUCCESS
    /\ pc' = "out"
    /\ UNCHANGED <<prev, fn, valid, calls, att, live>>

\* result = SUCCESS;   falls through to undo_d()
AndUndone_success ==
    /\ fn = AND_UNDONE
    /\ pc = "set_result"
    /\ result' = SUCCESS
    /\ pc' = "undo_d"
    /\ UNCHANGED <<prev, fn, valid, calls, att, live>>

\* mutant: a goto out follows undo_d()
AndUndone_undo_d_GotoOut == Undo(AND_UNDONE, "undo_d", 4, "out")

AndUndone_undo_d == Undo(AND_UNDONE, "undo_d", 4, "cleanup_c")

AndUndone_cleanup_c == Undo(AND_UNDONE, "cleanup_c", 3, "cleanup_b")

AndUndone_cleanup_b == Undo(AND_UNDONE, "cleanup_b", 2, "cleanup_a")

AndUndone_cleanup_a == Undo(AND_UNDONE, "cleanup_a", 1, "out")

AndUndone_out == Out(AND_UNDONE)

----------------------------------------------------------------------------
Next ==
    \/ NotUndone_validate
    \/ NotUndone_do_a
    \/ NotUndone_do_b
    \/ NotUndone_do_c
    \/ NotUndone_do_d
    \/ NotUndone_core
    \/ NotUndone_success
    \/ NotUndone_cleanup_c
    \/ NotUndone_cleanup_b
    \/ NotUndone_cleanup_a
    \/ NotUndone_out
    \/ AndUndone_validate
    \/ AndUndone_do_a
    \/ AndUndone_do_b
    \/ AndUndone_do_c
    \/ AndUndone_do_d
    \/ AndUndone_core
    \/ AndUndone_success
    \/ AndUndone_undo_d
    \/ AndUndone_cleanup_c
    \/ AndUndone_cleanup_b
    \/ AndUndone_cleanup_a
    \/ AndUndone_out

Spec == Init /\ [][Next]_vars

\* The functions are straight-line, single-threaded code: a statement that can
\* execute does execute.
FairSpec == Spec /\ WF_vars(Next)

----------------------------------------------------------------------------
\* Two calls with the same arguments, for comparing runs.  After a call has
\* returned the caller calls one of the two functions again with the same
\* var_1, var_2, var_3; in the second call every do_x returns what it returned
\* in the first call, as far as the first call asked.

SameAnswers ==
    \/ Len(prev) = 0
    \/ \A s \in Steps :
           (att[s] # "none" /\ prev[1].att[s] # "none") => att[s] = prev[1].att[s]

Replay == Next /\ SameAnswers'

CallAgain ==
    /\ pc = "returned"
    /\ Len(prev) = 0
    /\ prev' = <<[fn |-> fn, calls |-> calls, att |-> att, result |-> result]>>
    /\ fn' \in {BUT_NOT_UNDONE, AND_UNDONE}
    /\ pc' = "validate"
    /\ result' = FAILURE
    /\ calls' = <<>>
    /\ att' = [s \in Steps |-> "none"]
    /\ live' = {}
    /\ UNCHANGED valid

PairNext ==
    \/ Replay
    \/ CallAgain

PairSpec == Init /\ [][PairNext]_vars

----------------------------------------------------------------------------
\* Vocabulary of the properties

Returned == pc = "returned"

RECURSIVE StepsOf(_, _)
\* the steps of the calls of kind k, in call order
StepsOf(k, cs) ==
    IF cs = <<>> THEN <<>>
    ELSE IF Head(cs).k = k THEN <<Head(cs).s>> \o StepsOf(k, Tail(cs))
         ELSE StepsOf(k, Tail(cs))

UndoOrder == StepsOf("undo", calls)
DoOrder == StepsOf("do", calls)

\* <<n, n-1, ..., 1>>
Down(n) == [j \in 1..n |-> n + 1 - j]

AllStepsOk == \A s \in Steps : att[s] = "ok"

CoreRuns == Len(StepsOf("core", calls))

TypeOK ==
    /\ fn \in {BUT_NOT_UNDONE, AND_UNDONE}
    /\ valid \in [1..3 -> BOOLEAN]
    /\ result \in {FAILURE, SUCCESS}
    /\ att \in [Steps -> {"none", "ok", "fail"}]
    /\ live \subseteq Steps

UndoFailed == \E p \in 1..Len(calls) : calls[p].k = "undo" /\ ~calls[p].r

IsPrefix(a, b) == Len(a) <= Len(b) /\ \A j \in 1..Len(a) : a[j] = b[j]

\* position of each statement in the text of the function
Rank(l) ==
    CASE l = "validate" -> 0
      [] l = "do_a" -> 1
      [] l = "do_b" -> 2
      [] l = "do_c" -> 3
      [] l = "do_d" -> 4
      [] l = "core" -> 5
      [] l = "set_result" -> 6
      [] l = "undo_d" -> 7
      [] l = "cleanup_c" -> 8
      [] l = "cleanup_b" -> 9
      [] l = "cleanup_a" -> 10
      [] l = "out" -> 11
      [] l = "returned" -> 12

----------------------------------------------------------------------------
\* C1: in both functions, when step i fails after steps before i succeeded,
\* the compensations called are exactly those of steps i-1, ..., first step,
\* in that decreasing order, each once; step i and the later steps get no
\* compensation call (the unwind starts at i-1).  While the unwind is running
\* the compensations called so far are an initial part of that order.
C1_ReverseUnwind ==
    \A i \in Steps :
        att[i] = "fail" =>
            /\ IsPrefix(UndoOrder, Down(i - 1))
            /\ Returned => UndoOrder = Down(i - 1)

C1_Witness ==
    /\ Returned
    /\ att[4] = "fail"
    /\ UndoOrder = <<3, 2, 1>>

\* C2: when validation passes and do_a..do_d all succeed, the factory function
\* returns SUCCESS with no compensation call and all four effects live; the
\* scoped function returns SUCCESS having called undo_d, undo_c, undo_b, undo_a
\* in that order, once each, with no effect live.
C2_SuccessPath ==
    (Returned /\ ArgsValid /\ AllStepsOk) =>
        /\ result = SUCCESS
        /\ fn = BUT_NOT_UNDONE => (UndoOrder = <<>> /\ live = Steps)
        /\ fn = AND_UNDONE => (UndoOrder = <<4, 3, 2, 1>> /\ live = {})

C2_Witness ==
    /\ Returned
    /\ AllStepsOk
    /\ fn = AND_UNDONE
    /\ UndoOrder = <<4, 3, 2, 1>>

\* C3: in both functions, when argument validation fails no do_* and no undo_*
\* is ever called, and the function returns FAILURE.
C3_ValidationShortCircuit ==
    ~ArgsValid =>
        /\ calls = <<>>
        /\ Returned => result = FAILURE

C3_Witness ==
    /\ Returned
    /\ ~ArgsValid
    /\ valid[1]
    /\ calls = <<>>

\* C4: in both functions the value returned is SUCCESS exactly when validation
\* passed, every do_* succeeded and the core task ran; otherwise it is FAILURE.
C4_SuccessIff ==
    Returned =>
        /\ result = SUCCESS <=> (ArgsValid /\ AllStepsOk /\ CoreRuns = 1)
        /\ result # SUCCESS => result = FAILURE

C4_Witness ==
    /\ Returned
    /\ result = SUCCESS
    /\ CoreRuns = 1
    /\ fn = BUT_NOT_UNDONE

\* C5: in both functions a run that returns FAILURE returns with no step
\* effect live: every step that succeeded has had its compensation called.
C5_FailureLeavesNothing ==
    (Returned /\ result = FAILURE) =>
        /\ live = {}
        /\ \A s \in Steps : att[s] = "ok" =>
               \E p \in 1..Len(calls) : calls[p].k = "undo" /\ calls[p].s = s

C5_Witness ==
    /\ Returned
    /\ result = FAILURE
    /\ att[3] = "fail"
    /\ live = {}

\* C6: at every point of every run of either function the set of steps with a
\* live effect is a prefix of the step order (possibly empty), never a gap.
C6_LivePrefix == \E k \in 0..NSteps : live = 1..k

C6_Witness ==
    /\ pc = "cleanup_b"
    /\ live = {1, 2}
    /\ att[4] = "fail"

\* C7: in both functions undo_x is called only after do_x returned success in
\* the same run, and at most once per run.
C7_UndoOnlyAfterDo ==
    \A p \in 1..Len(calls) :
        calls[p].k = "undo" =>
            /\ \E q \in 1..(p - 1) :
                   calls[q] = [k |-> "do", s |-> calls[p].s, r |-> TRUE]
            /\ \A q \in 1..Len(calls) :
                   (calls[q].k = "undo" /\ calls[q].s = calls[p].s) => q = p

C7_Witness ==
    /\ Returned
    /\ att[3] = "fail"
    /\ UndoOrder = <<2, 1>>

\* C8: the scoped function returns with no step effect live under every
\* outcome (validation failure, step failure, success).
C8_ScopedLeavesNothing == (fn = AND_UNDONE /\ Returned) => live = {}

C8_Witness ==
    /\ fn = AND_UNDONE
    /\ Returned
    /\ result = SUCCESS
    /\ live = {}

\* C9 as stated: when a compensation fails during the unwind, the run does not
\* go on to return an ordinary outcome; the caller sees something other than
\* SUCCESS or FAILURE.
C9_HardErrorOnUndoFailure ==
    (Returned /\ UndoFailed) => result \notin {SUCCESS, FAILURE}

\* C9 as amended: what a compensation returns is discarded.  When one fails the
\* unwind still calls every remaining compensation down to undo_a, and the
\* function returns its ordinary value: SUCCESS if every step had succeeded,
\* FAILURE otherwise.
C9_UndoFailureIgnored ==
    (Returned /\ UndoFailed) =>
        /\ UndoOrder = Down(UndoOrder[1])
        /\ result = IF AllStepsOk THEN SUCCESS ELSE FAILURE

C9_Witness ==
    /\ Returned
    /\ \E p \in 1..Len(calls) :
           calls[p] = [k |-> "undo", s |-> 3, r |-> FALSE]
    /\ UndoOrder = <<3, 2, 1>>
    /\ result = FAILURE

\* C10: every run of either function reaches a terminal state, returning
\* SUCCESS or FAILURE, and no control state is entered twice: control only
\* moves forward through the text of the function.
C10_TerminatesNoRevisit ==
    /\ <>(Returned /\ result \in {SUCCESS, FAILURE})
    /\ [][Rank(pc') > Rank(pc)]_vars

C10_Witness ==
    /\ Returned
    /\ fn = BUT_NOT_UNDONE
    /\ att[2] = "fail"
    /\ UndoOrder = <<1>>

SomeStepFailed == \E s \in Steps : att[s] = "fail"

UndoCalled(s) == \E p \in 1..Len(calls) : calls[p].k = "undo" /\ calls[p].s = s

\* C12: in both functions the core task runs exactly once in a run where
\* validation passed and do_a..do_d all succeeded, after do_d returned success
\* and before any compensation call; it never runs when validation fails or a
\* forward action fails.
C12_CoreOnceAfterSteps ==
    /\ CoreRuns <= 1
    /\ (Returned /\ ArgsValid /\ AllStepsOk) => CoreRuns = 1
    /\ (~ArgsValid \/ SomeStepFailed) => CoreRuns = 0
    /\ \A p \in 1..Len(calls) :
           calls[p].k = "core" =>
               /\ p = NSteps + 1
               /\ calls[NSteps] = [k |-> "do", s |-> NSteps, r |-> TRUE]
               /\ \A q \in 1..Len(calls) : calls[q].k = "undo" => q > p

C12_Witness ==
    /\ fn = AND_UNDONE
    /\ pc = "cleanup_b"
    /\ CoreRuns = 1
    /\ UndoOrder = <<4, 3>>

\* C13: in both functions the forward actions are attempted in the order do_a,
\* do_b, do_c, do_d, each at most once; a step is attempted only after the
\* step before it returned success, and no forward action is attempted after a
\* forward action failed or a compensation was called.
C13_ForwardOrder ==
    \A p \in 1..Len(calls) :
        calls[p].k = "do" =>
            /\ calls[p].s = p
            /\ \A q \in 1..(p - 1) : calls[q] = [k |-> "do", s |-> q, r |-> TRUE]

C13_Witness ==
    /\ Returned
    /\ DoOrder = <<1, 2, 3>>
    /\ att[3] = "fail"
    /\ fn = AND_UNDONE

\* C14: undo_d is never called in the factory function; in the scoped function
\* undo_d is called in a run exactly when that run returns SUCCESS, and never
\* on a failure path.
C14_UndoDOnlyOnScopedSuccess ==
    /\ fn = BUT_NOT_UNDONE => ~UndoCalled(4)
    /\ fn = AND_UNDONE =>
           /\ UndoCalled(4) => (result = SUCCESS /\ ~SomeStepFailed)
           /\ Returned => (UndoCalled(4) <=> result = SUCCESS)

C14_Witness ==
    /\ fn = AND_UNDONE
    /\ Returned
    /\ att[4] = "fail"
    /\ ~UndoCalled(4)
    /\ UndoCalled(3)

\* C15: in both functions, when validation passes and do_a fails, no
\* compensation is called, no later step is attempted and FAILURE is returned.
C15_FirstStepFails ==
    att[1] = "fail" =>
        /\ ArgsValid
        /\ calls = <<[k |-> "do", s |-> 1, r |-> FALSE]>>
        /\ pc \in {"out", "returned"}
        /\ result = FAILURE

C15_Witness ==
    /\ Returned
    /\ att[1] = "fail"
    /\ Len(calls) = 1

\* C16 as stated: in the scoped function result is never SUCCESS while a step
\* effect is still live or a compensation is still to run.
C16_SuccessOnlyAfterUnwind ==
    (fn = AND_UNDONE /\ result = SUCCESS) =>
        /\ live = {}
        /\ pc \in {"out", "returned"}

\* C16 as amended: the scoped function assigns result = SUCCESS right after the
\* core task and before undo_d, so during the success-path unwind result is
\* already SUCCESS while the steps not yet compensated are live; the function
\* returns SUCCESS only after all four compensations were called, with nothing
\* live.
C16_SuccessSetBeforeUnwind ==
    (fn = AND_UNDONE /\ result = SUCCESS) =>
        /\ CoreRuns = 1
        /\ pc \in {"undo_d", "cleanup_c", "cleanup_b", "cleanup_a", "out", "returned"}
        /\ IsPrefix(UndoOrder, Down(NSteps))
        /\ live = 1..(NSteps - Len(UndoOrder))
        /\ Returned => (UndoOrder = Down(NSteps) /\ live = {})

C16_Witness ==
    /\ fn = AND_UNDONE
    /\ result = SUCCESS
    /\ pc = "undo_d"
    /\ live = Steps

\* which callee each call went to, without what it returned
Names(cs) == [j \in 1..Len(cs) |-> <<cs[j].k, cs[j].s>>]

BothReturned == Returned /\ Len(prev) = 1

\* C17: the two functions differ only in whether the steps are rolled back
\* after the core task succeeded.  Called with the same validation result and
\* the same do_* results, when validation fails or a forward action fails both
\* make the same sequence of do_*/undo_* calls and both return FAILURE; they
\* differ (in their calls, not in the value returned) only when everything
\* succeeds.
C17_DifferOnlyOnSuccess ==
    (BothReturned /\ prev[1].fn # fn) =>
        IF ~ArgsValid \/ \E s \in Steps : prev[1].att[s] = "fail"
        THEN /\ Names(calls) = Names(prev[1].calls)
             /\ result = FAILURE
             /\ prev[1].result = FAILURE
        ELSE /\ Names(calls) # Names(prev[1].calls)
             /\ result = SUCCESS
             /\ prev[1].result = SUCCESS

C17_Witness ==
    /\ BothReturned
    /\ prev[1].fn = BUT_NOT_UNDONE
    /\ fn = AND_UNDONE
    /\ att[4] = "fail"
    /\ Names(calls) = Names(prev[1].calls)
    /\ Len(calls) = 7

\* C18: a run is deterministic: two calls of the same function with the same
\* validation result and the same do_* results make the same sequence of
\* do_*/undo_*/core calls and return the same value, whatever the
\* compensations return.
C18_Deterministic ==
    (BothReturned /\ prev[1].fn = fn) =>
        /\ Names(calls) = Names(prev[1].calls)
        /\ att = prev[1].att
        /\ result = prev[1].result

C18_Witness ==
    /\ BothReturned
    /\ prev[1].fn = fn
    /\ att[4] = "fail"
    /\ Names(calls) = Names(prev[1].calls)
    /\ calls # prev[1].calls

====
